---- MODULE Spec2Model ----
(***************************************************************************)
(* Model of src/dsd.py: the CSV normalization pipeline of the monthly      *)
(* sales dashboard (load_csv, pick_col, normalize_df, the KPI selection    *)
(* and the CSV re-export).                                                 *)
(*                                                                         *)
(* Text is a sequence of characters.  An ASCII character is the one-letter *)
(* string itself; a non-ASCII character is named by its code point:        *)
(*   U+C6D4 (wol, "month")            U+B9E4 U+CD9C U+C561 (sales)         *)
(*   U+C804 U+B144 U+B3D9 U+C6D4 (same month last year)                    *)
(*   U+C99D U+AC10 U+B960 (rate of change)                                 *)
(*   U+B9E4 U+CD9C U+CC28 U+C561 (sales difference)                        *)
(*   U+B204 U+C801 U+B9E4 U+CD9C (cumulative sales)                        *)
(*   U+C6D0 (won, the currency)   U+FF12 (fullwidth digit two)             *)
(*   U+00B2 (superscript two)                                              *)
(*                                                                         *)
(* A float is an exact multiple of 10^-5, held as the integer number of    *)
(* such units (Unit units make 1.0); every input of the bounded sets below *)
(* is exactly representable, so no rounding is modelled.                   *)
(***************************************************************************)
EXTENDS Integers, Sequences, FiniteSets, TLC

VARIABLES
    file,     \* the uploaded CSV: [columns: Seq(Text), rows: Seq(Seq(Text))]
    pc,       \* position of the script run
    df,       \* load_csv's DataFrame, headers stripped (normalize_df line 104)
    col,      \* normalize_df's col_month, col_sales, col_ly, col_yoy
    missing,  \* normalize_df's list of unresolved columns
    error,    \* the exception the script's try block caught (lines 175-177)
    coerced,  \* the frame `out` of normalize_df before dropna (lines 116-137)
    out,      \* the normalized table normalize_df returns
    labels,   \* the index labels of out's rows before reset_index (line 139)
    kpi,      \* the KPI locals of the script (lines 180-185, 248-249)
    csv,      \* the exported CSV (line 266)
    prev      \* the table of the run whose export was uploaded again

vars == <<file, pc, df, col, missing, error, coerced, out, labels, kpi, csv, prev>>

---------------------------------------------------------------------------
(* Bounds of the model *)

MaxLen == 3
MaxRows == 3
MaxCols == 4

---------------------------------------------------------------------------
(* Characters and text *)

RECURSIVE Pow10(_)
Pow10(n) == IF n = 0 THEN 1 ELSE 10 * Pow10(n - 1)

Unit == Pow10(5)

AsciiDigits == {"0", "1", "2", "3", "4", "5", "6", "7", "8", "9"}

\* str.isdigit: true of every Unicode digit, ASCII or not.
isdigit(ch) == ch \in AsciiDigits \cup {"U+FF12", "U+00B2"}

\* The characters float() reads as decimal digits (category Nd).
isdecimal(ch) == ch \in AsciiDigits \cup {"U+FF12"}

DigitVal(ch) ==
    CASE ch = "0" -> 0 [] ch = "1" -> 1 [] ch = "2" -> 2 [] ch = "3" -> 3
      [] ch = "4" -> 4 [] ch = "5" -> 5 [] ch = "6" -> 6 [] ch = "7" -> 7
      [] ch = "8" -> 8 [] ch = "9" -> 9 [] ch = "U+FF12" -> 2

DigitCh(d) ==
    CASE d = 0 -> "0" [] d = 1 -> "1" [] d = 2 -> "2" [] d = 3 -> "3"
      [] d = 4 -> "4" [] d = 5 -> "5" [] d = 6 -> "6" [] d = 7 -> "7"
      [] d = 8 -> "8" [] d = 9 -> "9"

isspace(ch) == ch = " "

\* str.strip()
RECURSIVE lstrip(_)
lstrip(s) == IF s # <<>> /\ isspace(Head(s)) THEN lstrip(Tail(s)) ELSE s

RECURSIVE rstrip(_)
rstrip(s) ==
    IF s # <<>> /\ isspace(s[Len(s)]) THEN rstrip(SubSeq(s, 1, Len(s) - 1)) ELSE s

strip(s) == rstrip(lstrip(s))

\* s.replace(ch, '')
RECURSIVE remove(_, _)
remove(s, ch) ==
    IF s = <<>> THEN <<>>
    ELSE IF Head(s) = ch THEN remove(Tail(s), ch)
    ELSE <<Head(s)>> \o remove(Tail(s), ch)

\* Index of the first character of s that is in set, 0 when there is none.
find(s, set) ==
    IF \E i \in 1..Len(s) : s[i] \in set
    THEN CHOOSE i \in 1..Len(s) :
             s[i] \in set /\ \A j \in 1..(i - 1) : s[j] \notin set
    ELSE 0

RECURSIVE NatVal(_)
NatVal(s) ==
    IF s = <<>> THEN 0
    ELSE 10 * NatVal(SubSeq(s, 1, Len(s) - 1)) + DigitVal(s[Len(s)])

RECURSIVE NatStr(_)
NatStr(n) == IF n < 10 THEN <<DigitCh(n)>> ELSE NatStr(n \div 10) \o <<DigitCh(n % 10)>>

\* The sequence f with its elements evaluated (a function written
\* [i \in 1..n |-> e] is otherwise evaluated anew at each application).
list(f) == SubSeq(f, 1, Len(f))

AllDecimal(s) == \A i \in 1..Len(s) : isdecimal(s[i])

---------------------------------------------------------------------------
(* Floats *)

None == [ok |-> FALSE, v |-> 0]
Some(x) == [ok |-> TRUE, v |-> x]

\* Python's float(s): surrounding whitespace is ignored; an optional sign,
\* digits with an optional point (at least one digit), an optional exponent.
\* None stands for the ValueError float() raises.
sign_len(t) == IF t # <<>> /\ t[1] \in {"+", "-"} THEN 1 ELSE 0
negative(t) == t # <<>> /\ t[1] = "-"
unsigned(t) == SubSeq(t, sign_len(t) + 1, Len(t))

before(t, at) == IF at = 0 THEN t ELSE SubSeq(t, 1, at - 1)
after(t, at) == IF at = 0 THEN <<>> ELSE SubSeq(t, at + 1, Len(t))

\* The units of the digits ip "." fp (the model's floats carry five decimals).
units(ip, fp, fl) == NatVal(ip) * Unit + NatVal(SubSeq(fp, 1, fl)) * Pow10(5 - fl)

scaled(m, eneg, e) == IF eneg THEN m \div Pow10(e) ELSE m * Pow10(e)

signed(neg, a) == IF neg THEN 0 - a ELSE a

float_value(neg, ip, fp, has_exp, eneg, edig) ==
    IF /\ AllDecimal(ip) /\ AllDecimal(fp)
       /\ Len(ip) + Len(fp) > 0
       /\ (has_exp => (edig # <<>> /\ AllDecimal(edig)))
    THEN Some(signed(neg, scaled(units(ip, fp, IF Len(fp) < 5 THEN Len(fp) ELSE 5),
                                 eneg, NatVal(edig))))
    ELSE None

float_split(neg, mant, has_exp, ex) ==
    float_value(neg, before(mant, find(mant, {"."})), after(mant, find(mant, {"."})),
                has_exp, negative(ex), unsigned(ex))

float_unsigned(neg, body) ==
    float_split(neg, before(body, find(body, {"e", "E"})),
                find(body, {"e", "E"}) # 0, after(body, find(body, {"e", "E"})))

float_stripped(t) == float_unsigned(negative(t), unsigned(t))

float(s) == float_stripped(strip(s))

\* The digits of n without trailing zeros ("" for 0).
RECURSIVE TrimZeros(_)
TrimZeros(s) ==
    IF s # <<>> /\ s[Len(s)] = "0" THEN TrimZeros(SubSeq(s, 1, Len(s) - 1)) ELSE s

RECURSIVE Zeros(_)
Zeros(n) == IF n <= 0 THEN <<>> ELSE <<"0">> \o Zeros(n - 1)

\* str(x) of a float x (float.__repr__): the shortest digits, in exponent
\* notation when the decimal point would sit more than three zeros to the
\* left of the first digit (x < 1e-4); the other exponent range (x >= 1e16)
\* is beyond the values of the model.
FloatStr(x) ==
    LET a    == IF x < 0 THEN 0 - x ELSE x
        sign == IF x < 0 THEN <<"-">> ELSE <<>>
        ds   == NatStr(a)
        frac == TrimZeros(Zeros(5 - Len(NatStr(a % Unit))) \o NatStr(a % Unit))
    IN  IF a # 0 /\ a < 10
        THEN sign \o ds \o <<"e", "-", "0", "5">>
        ELSE sign \o NatStr(a \div Unit) \o <<".">>
                  \o (IF frac = <<>> THEN <<"0">> ELSE frac)

\* str(n) of an int n (held in units like a float)
IntStr(x) ==
    IF x < 0 THEN <<"-">> \o NatStr((0 - x) \div Unit) ELSE NatStr(x \div Unit)

---------------------------------------------------------------------------
(* Header names *)

T_wol == <<"U+C6D4">>
T_maechulaek == <<"U+B9E4", "U+CD9C", "U+C561">>
T_jeonnyeondongwol == <<"U+C804", "U+B144", "U+B3D9", "U+C6D4">>
T_jeunggamryul == <<"U+C99D", "U+AC10", "U+B960">>
T_maechulchaaek == <<"U+B9E4", "U+CD9C", "U+CC28", "U+C561">>
T_nujeokmaechul == <<"U+B204", "U+C801", "U+B9E4", "U+CD9C">>

KOR_KEYS ==
    [month |-> << T_wol, <<"M", "o", "n", "t", "h">>, <<"m", "o", "n", "t", "h">> >>,
     sales |-> << T_maechulaek, <<"S", "a", "l", "e", "s">>, <<"s", "a", "l", "e", "s">> >>,
     ly    |-> << T_jeonnyeondongwol, <<"L", "Y">>, <<"P", "r", "e", "v">>,
                  <<"p", "r", "e", "v">>,
                  <<"l", "a", "s", "t", "_", "y", "e", "a", "r">> >>,
     yoy   |-> << T_jeunggamryul, <<"Y", "o", "Y">>, <<"y", "o", "y">>,
                  <<"c", "h", "g">> >>]

Fields == <<"month", "sales", "ly", "yoy">>

Range(s) == {s[i] : i \in 1..Len(s)}

\* pick_col with the keys tried from the last to the first.
RECURSIVE pick_col_last(_, _)
pick_col_last(columns, keys) ==
    IF keys = <<>> THEN <<>>
    ELSE IF keys[Len(keys)] \in Range(columns) THEN keys[Len(keys)]
    ELSE pick_col_last(columns, SubSeq(keys, 1, Len(keys) - 1))

\* pick_col(df, keys): the first key that is a column of df, else None
\* (here the empty text, which is falsy like None and no alias).
RECURSIVE pick_col(_, _)
pick_col(columns, keys) ==
    IF keys = <<>> THEN <<>>
    ELSE IF Head(keys) \in Range(columns) THEN Head(keys)
    ELSE pick_col(columns, Tail(keys))

---------------------------------------------------------------------------
(* load_csv: pandas.read_csv with its defaults *)

Null == [k |-> "null", s |-> <<>>, v |-> 0]
StrCell(t) == [k |-> "str", s |-> t, v |-> 0]
NumCell(x) == [k |-> "num", s |-> <<>>, v |-> x]
IntCell(x) == [k |-> "int", s |-> <<>>, v |-> x]

\* A field read_csv converts to a number: ASCII only, float() syntax.
CsvNumber(t) == float(t).ok /\ \A i \in 1..Len(t) : t[i] # "U+FF12"

\* A field read_csv converts to an integer: a sign and ASCII digits.
CsvInteger(t) ==
    LET u == strip(t)
        d == IF u # <<>> /\ u[1] \in {"+", "-"} THEN Tail(u) ELSE u
    IN  d # <<>> /\ \A i \in 1..Len(d) : d[i] \in AsciiDigits

\* A column is numeric when every field that is not empty is a number, and
\* int64 when every field is an integer; an empty field is NaN (which makes
\* the column float64); a column that is not numeric keeps its text.
column_dtype(f, j) ==
    IF \A i \in 1..Len(f.rows) : CsvInteger(f.rows[i][j]) THEN "int64"
    ELSE IF \A i \in 1..Len(f.rows) :
                f.rows[i][j] = <<>> \/ CsvNumber(f.rows[i][j]) THEN "float64"
    ELSE "object"

read_cell(t, dtype) ==
    IF t = <<>> THEN Null
    ELSE IF dtype = "int64" THEN IntCell(float(t).v)
    ELSE IF dtype = "float64" THEN NumCell(float(t).v)
    ELSE StrCell(t)

load_csv(f) ==
    LET dtypes == list([j \in 1..Len(f.columns) |-> column_dtype(f, j)])
    IN  [columns |-> f.columns,
         rows |-> list([i \in 1..Len(f.rows) |->
                     list([j \in 1..Len(f.columns) |->
                              read_cell(f.rows[i][j], dtypes[j])])])]

---------------------------------------------------------------------------
(* normalize_df *)

isna(c) == c.k = "null"

\* str(x) of a cell
str(c) ==
    IF c.k = "null" THEN <<"n", "a", "n">>
    ELSE IF c.k = "num" THEN FloatStr(c.v)
    ELSE IF c.k = "int" THEN IntStr(c.v)
    ELSE c.s

\* The generator of line 125: the characters kept, in order.
RECURSIVE keep_chars(_)
keep_chars(s) ==
    IF s = <<>> THEN <<>>
    ELSE IF isdigit(Head(s)) \/ Head(s) \in {"-", "."}
         THEN <<Head(s)>> \o keep_chars(Tail(s))
         ELSE keep_chars(Tail(s))

to_num(c) ==
    IF isna(c) THEN None ELSE float(keep_chars(remove(str(c), "%")))

\* The lambda of lines 133-134; yoy_raises is the ValueError of its float().
yoy_guard(c) == ~isna(c) /\ strip(str(c)) # <<>>
yoy_raises(c) == yoy_guard(c) /\ ~float(remove(str(c), "%")).ok
yoy_num(c) == IF yoy_guard(c) THEN float(remove(str(c), "%")) ELSE None

\* pd.to_datetime(s, format="%Y-%m", errors="coerce"): %Y is four digits,
\* %m is one or two digits naming a month 1..12; the result is the month's
\* ordinal (12 * year + month), None for NaT.
to_datetime(s) ==
    LET m == SubSeq(s, 6, Len(s))
        ok == /\ Len(s) \in {6, 7}
              /\ \A i \in 1..4 : s[i] \in AsciiDigits
              /\ s[5] = "-"
              /\ \A i \in 1..Len(m) : m[i] \in AsciiDigits
              /\ NatVal(m) \in 1..12
    IN  IF ok THEN Some(12 * NatVal(SubSeq(s, 1, 4)) + NatVal(m)) ELSE None

stripped(columns) == list([j \in 1..Len(columns) |-> strip(columns[j])])

resolve(columns) ==
    [f \in Range(Fields) |->
        IF pick_col(columns, KOR_KEYS[f]) # <<>>
        THEN pick_col(columns, KOR_KEYS[f])
        ELSE KOR_KEYS[f][1]]

notin_columns(columns, c) == c \notin Range(columns)

\* missing_of stopping at the first column that is missing.
missing_first(columns, cl) ==
    LET Absent(c) == c \notin Range(columns)
        all == SelectSeq(<<cl["month"], cl["sales"], cl["ly"], cl["yoy"]>>, Absent)
    IN  IF all = <<>> THEN <<>> ELSE <<Head(all)>>

missing_of(columns, cl) ==
    LET Absent(c) == notin_columns(columns, c)
    IN  SelectSeq(<<cl["month"], cl["sales"], cl["ly"], cl["yoy"]>>, Absent)

\* df[c]: a Series when exactly one column is named c.
column_index(columns, c) == CHOOSE j \in 1..Len(columns) : columns[j] = c
duplicated(columns, c) == Cardinality({j \in 1..Len(columns) : columns[j] = c}) > 1

series(d, columns, c) ==
    LET j == column_index(columns, c)
    IN  list([i \in 1..Len(d.rows) |-> d.rows[i][j]])

\* Lines 116-137: the frame out before dropna.
coerce(d, columns, cl) ==
    LET s_month == series(d, columns, cl["month"])
        s_sales == series(d, columns, cl["sales"])
        s_ly    == series(d, columns, cl["ly"])
        s_yoy   == series(d, columns, cl["yoy"])
    IN  list([i \in 1..Len(d.rows) |->
                [month |-> strip(str(s_month[i])),
                 sales |-> to_num(s_sales[i]),
                 ly    |-> to_num(s_ly[i]),
                 yoy   |-> yoy_num(s_yoy[i]),
                 dt    |-> to_datetime(strip(str(s_month[i])))]])

\* Line 138: dropna(subset=["_dt", sales]) keeps these row labels, in order.
dropna_keep(r) == r.dt.ok /\ r.sales.ok

RECURSIVE kept_labels(_, _)
kept_labels(rows, i) ==
    IF i > Len(rows) THEN <<>>
    ELSE IF dropna_keep(rows[i]) THEN <<i>> \o kept_labels(rows, i + 1)
    ELSE kept_labels(rows, i + 1)

\* Line 139: sort_values("_dt") with the default kind, quicksort, which is
\* not a stable sort: every arrangement of the labels in non-decreasing
\* _dt order is a possible outcome.
sort_values(rows, ls) ==
    {p \in [1..Len(ls) -> Range(ls)] :
        /\ \A a, b \in 1..Len(ls) : a # b => p[a] # p[b]
        /\ \A a \in 1..(Len(ls) - 1) : rows[p[a]].dt.v <= rows[p[a + 1]].dt.v}

RECURSIVE Sum(_)
Sum(s) == IF s = <<>> THEN 0 ELSE Head(s) + Sum(Tail(s))

\* Series.cumsum()
cumsum(s) == list([i \in 1..Len(s) |-> Sum(SubSeq(s, 1, i))])

\* (sales - ly).fillna(0): the difference is NaN when ly is NaN.
delta_of(sales, ly) == IF ly.ok THEN sales - ly.v ELSE 0

\* derive with the cumulative sum taken before the rows are sorted.
derive_cum_before_sort(rows, p) ==
    LET ls  == kept_labels(rows, 1)
        cum == cumsum(list([j \in 1..Len(ls) |-> rows[ls[j]].sales.v]))
        at(l) == CHOOSE j \in 1..Len(ls) : ls[j] = l
    IN  list([j \in 1..Len(p) |->
                [month |-> rows[p[j]].month,
                 sales |-> rows[p[j]].sales.v,
                 ly    |-> rows[p[j]].ly,
                 yoy   |-> rows[p[j]].yoy,
                 dt    |-> rows[p[j]].dt.v,
                 delta |-> delta_of(rows[p[j]].sales.v, rows[p[j]].ly),
                 cum   |-> cum[at(p[j])]]])

\* Lines 139-143: the sorted rows with the derived columns.
derive(rows, p) ==
    LET cum == cumsum(list([j \in 1..Len(p) |-> rows[p[j]].sales.v]))
    IN  list([j \in 1..Len(p) |->
                [month |-> rows[p[j]].month,
                 sales |-> rows[p[j]].sales.v,
                 ly    |-> rows[p[j]].ly,
                 yoy   |-> rows[p[j]].yoy,
                 dt    |-> rows[p[j]].dt.v,
                 delta |-> delta_of(rows[p[j]].sales.v, rows[p[j]].ly),
                 cum   |-> cum[j]]])

---------------------------------------------------------------------------
(* The rest of the script: KPIs and the export *)

\* Series.idxmax() / idxmin(): the label of the first occurrence of the
\* extreme value (rows are numbered from 1 here, from 0 in pandas).
RECURSIVE scan_max(_, _, _)
scan_max(s, i, best) ==
    IF i > Len(s) THEN best
    ELSE IF s[i] > s[best] THEN scan_max(s, i + 1, i)
    ELSE scan_max(s, i + 1, best)

\* idxmax keeping the last occurrence of the greatest value.
RECURSIVE scan_max_last(_, _, _)
scan_max_last(s, i, best) ==
    IF i > Len(s) THEN best
    ELSE IF s[i] >= s[best] THEN scan_max_last(s, i + 1, i)
    ELSE scan_max_last(s, i + 1, best)

idxmax_last(s) == scan_max_last(s, 2, 1)

idxmax(s) == scan_max(s, 2, 1)

RECURSIVE scan_min(_, _, _)
scan_min(s, i, best) ==
    IF i > Len(s) THEN best
    ELSE IF s[i] < s[best] THEN scan_min(s, i + 1, i)
    ELSE scan_min(s, i + 1, best)

idxmin(s) == scan_min(s, 2, 1)

sales_of(t) == list([i \in 1..Len(t) |-> t[i].sales])

NoKpi == [total |-> 0, max_idx |-> 0, min_idx |-> 0,
          max_month |-> <<>>, max_sales |-> 0, min_month |-> <<>>, min_sales |-> 0]

kpi_of(t) ==
    LET hi == idxmax(sales_of(t))
        lo == idxmin(sales_of(t))
    IN  [total |-> Sum(sales_of(t)), max_idx |-> hi, min_idx |-> lo,
         max_month |-> t[hi].month, max_sales |-> t[hi].sales,
         min_month |-> t[lo].month, min_sales |-> t[lo].sales]

\* DataFrame.to_csv(index=False) of the table without _dt: NaN is an empty
\* field, a float is written as str() writes it.
opt_str(o) == IF o.ok THEN FloatStr(o.v) ELSE <<>>

to_csv(t) ==
    [columns |-> <<T_wol, T_maechulaek, T_jeonnyeondongwol, T_jeunggamryul,
                   T_maechulchaaek, T_nujeokmaechul>>,
     rows |-> list([i \in 1..Len(t) |->
                  <<t[i].month, FloatStr(t[i].sales), opt_str(t[i].ly),
                    opt_str(t[i].yoy), FloatStr(t[i].delta), FloatStr(t[i].cum)>>])]

---------------------------------------------------------------------------
(* The uploaded files of the model *)

Y2024 == <<"2", "0", "2", "4">>
P_2024_01 == Y2024 \o <<"-", "0", "1">>
P_2024_02 == Y2024 \o <<"-", "0", "2">>
P_2024_03 == Y2024 \o <<"-", "0", "3">>
P_2024_1 == Y2024 \o <<"-", "1">>
P_2024_13 == Y2024 \o <<"-", "1", "3">>
P_Q1_2024 == <<"Q", "1", "-">> \o Y2024
P_padded == <<" ">> \o P_2024_02 \o <<" ">>

KorHeader == <<T_wol, T_maechulaek, T_jeonnyeondongwol, T_jeunggamryul>>

\* Files that differ in the order, the periods and the sales of their rows:
\* rows that share a period, rows that share their sales, a row that is
\* dropped.
OrderRows ==
    {<<P_2024_01, <<"1", "0">>, <<>>, <<>> >>,
     <<P_2024_02, <<"2", "0">>, <<>>, <<>> >>,
     <<P_2024_03, <<"3", "0">>, <<>>, <<>> >>,
     <<P_2024_01, <<"3", "0">>, <<>>, <<>> >>,
     <<P_2024_03, <<"1", "0">>, <<>>, <<>> >>,
     <<P_Q1_2024, <<"2", "0">>, <<>>, <<>> >>}

OrderFiles ==
    {[columns |-> KorHeader, rows |-> r] :
        r \in UNION {[1..n -> OrderRows] : n \in 0..MaxRows}}

\* Files of one row that differ in what its cells hold.
PeriodTexts ==
    {P_2024_01, P_2024_1, P_2024_13, P_Q1_2024, P_padded, Y2024, <<>>}

SalesTexts ==
    {<<"1", "0">>, <<"-", "5">>, <<"-">>, <<>>,
     <<"1", "2", ",", "3", "4", "5", "U+C6D0">>,
     <<".", "0", "0", "0", "0", "1", "U+C6D0">>,
     <<"1", "U+FF12">>, <<"1", "U+00B2">>}

LyTexts == {<<>>, <<"4">>, <<",">>}

YoyTexts ==
    {<<>>, <<" ">>, <<"1", "4", ".", "3", "%">>, <<"-", "2", ".", "5">>,
     <<"1", ",", "2", "%">>}

CellFiles ==
    {[columns |-> KorHeader, rows |-> << <<p, s, l, y>> >>] :
        p \in PeriodTexts, s \in SalesTexts, l \in LyTexts, y \in YoyTexts}

\* Files of one row whose sales cell is any text of at most MaxLen characters.
Alphabet == {"1", "-", ".", ",", "%", " ", "U+FF12", "U+00B2"}

Texts == UNION {[1..n -> Alphabet] : n \in 0..MaxLen}

SalesFiles ==
    {[columns |-> KorHeader, rows |-> << <<P_2024_01, s, <<>>, <<>> >> >>] :
        s \in Texts}

\* Files of one row that differ in their header: at most MaxCols of the
\* aliases, a header in another case and a header with spaces around it.
Aliases == UNION {Range(KOR_KEYS[f]) : f \in Range(Fields)}

HeaderPool ==
    Aliases \cup {<<"S", "A", "L", "E", "S">>, <<" ", "S", "a", "l", "e", "s", " ">>}

RECURSIVE SetToSeq(_)
SetToSeq(S) ==
    IF S = {} THEN <<>>
    ELSE LET x == CHOOSE y \in S : TRUE IN <<x>> \o SetToSeq(S \ {x})

HeaderRow(h) ==
    list([j \in 1..Len(h) |->
        IF strip(h[j]) \in Range(KOR_KEYS["month"]) THEN P_2024_01 ELSE <<"1", "0">>])

HeaderFile(h) == [columns |-> h, rows |-> <<HeaderRow(h)>>]

\* Headers that name a field twice, in both languages.
MixedHeaders ==
    {<<T_wol, KOR_KEYS["month"][2], KOR_KEYS["sales"][3], KOR_KEYS["sales"][2],
       KOR_KEYS["ly"][5], KOR_KEYS["ly"][3], KOR_KEYS["yoy"][4], T_jeunggamryul>>,
     <<KOR_KEYS["month"][3], KOR_KEYS["month"][2], T_maechulaek,
       KOR_KEYS["ly"][4], KOR_KEYS["ly"][2], KOR_KEYS["yoy"][3], KOR_KEYS["yoy"][2]>>}

HeaderFiles ==
    {HeaderFile(SetToSeq(S)) :
        S \in {T \in SUBSET HeaderPool : Cardinality(T) <= MaxCols}}
    \cup {HeaderFile(h) : h \in MixedHeaders}

---------------------------------------------------------------------------
(* The script *)

NoFrame == [columns |-> <<>>, rows |-> <<>>]
NoError == [kind |-> "none", names |-> <<>>]
NoCol == [f \in Range(Fields) |-> <<>>]

Init ==
    /\ file \in OrderFiles \cup CellFiles \cup SalesFiles \cup HeaderFiles
    /\ pc = "uploaded"
    /\ df = NoFrame
    /\ col = NoCol
    /\ missing = <<>>
    /\ error = NoError
    /\ coerced = <<>>
    /\ out = <<>>
    /\ labels = <<>>
    /\ kpi = NoKpi
    /\ csv = NoFrame
    /\ prev = [has |-> FALSE, table |-> <<>>]

\* What lines 133-134 or a df[c] that is no Series raise.
raises(d, columns, cl) ==
    \/ \E f \in Range(Fields) : duplicated(columns, cl[f])
    \/ \E i \in 1..Len(d.rows) : yoy_raises(series(d, columns, cl["yoy"])[i])

\* What a call of normalize_df can end with: the ValueError of line 114, an
\* exception of lines 117-134, or a table (one for each outcome of the sort).
Raised(d, cl, ms, kind) ==
    [kind |-> kind, df |-> d, col |-> cl, missing |-> ms,
     coerced |-> <<>>, labels |-> <<>>, out |-> <<>>]

Returned(d, cl, rows) ==
    {[kind |-> "table", df |-> d, col |-> cl, missing |-> <<>>,
      coerced |-> rows, labels |-> p, out |-> derive(rows, p)] :
        p \in sort_values(rows, kept_labels(rows, 1))}

normalize_resolved(d, cl, ms) ==
    IF ms # <<>> THEN {Raised(d, cl, ms, "missing")}
    ELSE IF raises(d, d.columns, cl) THEN {Raised(d, cl, ms, "exception")}
    ELSE Returned(d, cl, coerce(d, d.columns, cl))

normalize_columns(d, cl) == normalize_resolved(d, cl, missing_of(d.columns, cl))

normalize_stripped(d) == normalize_columns(d, resolve(d.columns))

normalize_df(df_in) ==
    normalize_stripped([df_in EXCEPT !.columns = stripped(df_in.columns)])

\* The state a run of lines 172-177 leaves.
Ran(r) ==
    /\ df' = r.df
    /\ col' = r.col
    /\ missing' = r.missing
    /\ coerced' = r.coerced
    /\ labels' = r.labels
    /\ out' = r.out
    /\ kpi' = NoKpi
    /\ csv' = NoFrame
    /\ UNCHANGED <<file, prev>>

\* Lines 172-177 with normalize_df raising at its line 114.
RunMissing ==
    /\ pc = "uploaded"
    /\ \E r \in normalize_df(load_csv(file)) :
           /\ r.kind = "missing"
           /\ Ran(r)
           /\ error' = [kind |-> "missing", names |-> r.missing]
    /\ pc' = "error"

\* Lines 172-177 with normalize_df raising at its lines 117-134.
RunRaise ==
    /\ pc = "uploaded"
    /\ \E r \in normalize_df(load_csv(file)) :
           /\ r.kind = "exception"
           /\ Ran(r)
           /\ error' = [kind |-> "exception", names |-> <<>>]
    /\ pc' = "error"

\* Lines 172-177 with normalize_df returning its table.
RunOK ==
    /\ pc = "uploaded"
    /\ \E r \in normalize_df(load_csv(file)) :
           /\ r.kind = "table"
           /\ Ran(r)
           /\ error' = NoError
    /\ pc' = "normalized"

\* Lines 180-260: the KPIs and the charts of a table that has rows.
Kpi ==
    /\ pc = "normalized"
    /\ Len(out) > 0
    /\ kpi' = kpi_of(out)
    /\ pc' = "rendered"
    /\ UNCHANGED <<file, df, col, missing, error, coerced, out, labels, csv, prev>>

\* Line 182 on a table without rows: idxmax raises, outside the try block.
KpiCrash ==
    /\ pc = "normalized"
    /\ Len(out) = 0
    /\ pc' = "crashed"
    /\ UNCHANGED <<file, df, col, missing, error, coerced, out, labels, kpi, csv, prev>>

\* Lines 263-266: the normalized table as CSV.
Export ==
    /\ pc = "rendered"
    /\ csv' = to_csv(out)
    /\ pc' = "exported"
    /\ UNCHANGED <<file, df, col, missing, error, coerced, out, labels, kpi, prev>>

\* Line 62: the downloaded CSV is uploaded, and the script runs again (the
\* model follows one such round trip).
Upload ==
    /\ pc = "exported"
    /\ ~prev.has
    /\ file' = csv
    /\ prev' = [has |-> TRUE, table |-> out]
    /\ pc' = "uploaded"
    /\ UNCHANGED <<df, col, missing, error, coerced, out, labels, kpi, csv>>

Next ==
    \/ RunMissing
    \/ RunRaise
    \/ RunOK
    \/ Kpi
    \/ KpiCrash
    \/ Export
    \/ Upload

Spec == Init /\ [][Next]_vars

---------------------------------------------------------------------------
(* Properties *)

\* A run of lines 172-177 has ended (a file uploaded again has not run yet).
HasRun == pc # "uploaded"

\* normalize_df returned a table.
HasTable == pc \in {"normalized", "rendered", "crashed", "exported"}

\* The header names of the uploaded file, as the resolver sees them.
Headers == {strip(file.columns[j]) : j \in 1..Len(file.columns)}

\* The places in a field's alias list of the aliases the file has.
Present(f) == {i \in 1..Len(KOR_KEYS[f]) : KOR_KEYS[f][i] \in Headers}

Unresolved(f) == Present(f) = {}

AllResolved == \A f \in Range(Fields) : ~Unresolved(f)

Least(S) == CHOOSE i \in S : \A j \in S : i <= j

\* The cell of row i in the column resolved for field f.
CellOf(i, f) == df.rows[i][column_index(df.columns, col[f])]

\* C1: whenever the four canonical fields resolve, normalization ends
\* without an error, whatever the cells hold: every sales, prior-year and
\* yoy_rate cell comes out as a float or as absent.
C1_CoercionNeverAborts ==
    (HasRun /\ AllResolved) =>
        /\ pc # "error"
        /\ error.kind = "none"
        /\ \A i \in 1..Len(coerced) :
               /\ coerced[i].sales \in {None, Some(coerced[i].sales.v)}
               /\ coerced[i].yoy \in {None, Some(coerced[i].yoy.v)}

\* C2: in every retained row, delta is sales minus prior-year sales, with
\* an absent prior-year value counted as 0 (so that delta = sales).
C2_DeltaCountsAbsentPriorAsZero ==
    HasTable =>
        \A i \in 1..Len(out) :
            out[i].delta = out[i].sales - (IF out[i].ly.ok THEN out[i].ly.v ELSE 0)

\* The form YYYY-MM exactly: four digits, a hyphen, two digits naming a month.
StrictPeriod(t) ==
    /\ Len(t) = 7
    /\ \A i \in {1, 2, 3, 4, 6, 7} : t[i] \in AsciiDigits
    /\ t[5] = "-"
    /\ NatVal(SubSeq(t, 6, 7)) \in 1..12

\* C3: a row of the input is in the normalized table exactly when its
\* trimmed period has the form YYYY-MM and its coerced sales is present;
\* every other row is dropped without an error, whatever its prior-year
\* and yoy_rate cells hold.
C3_RowKeptIffPeriodAndSales ==
    (HasRun /\ AllResolved) =>
        /\ pc # "error"
        /\ \A i \in 1..Len(coerced) :
               (i \in Range(labels)) <=>
                   (StrictPeriod(coerced[i].month) /\ coerced[i].sales.ok)

\* C4: the normalized table is in non-decreasing order of period, and rows
\* of the same period keep the relative order they have in the file.
C4_SortedAndStable ==
    HasTable =>
        \A a, b \in 1..Len(out) :
            a < b => /\ out[a].dt <= out[b].dt
                     /\ (out[a].dt = out[b].dt => labels[a] < labels[b])

\* C5: when a canonical field resolves to no header, normalization fails
\* with one error that names every unresolved field and no resolved one,
\* and no table is produced.
C5_MissingColumnsNamesAll ==
    (HasRun /\ ~AllResolved) =>
        /\ pc = "error"
        /\ error.kind = "missing"
        /\ out = <<>>
        /\ \A f \in Range(Fields) :
               (KOR_KEYS[f][1] \in Range(error.names)) <=> Unresolved(f)
        /\ Len(error.names) = Cardinality({f \in Range(Fields) : Unresolved(f)})
        /\ \A n \in Range(error.names) : n \notin Headers

C5_Witness ==
    /\ pc = "error"
    /\ error.kind = "missing"
    /\ Len(error.names) = 4
    /\ file.columns # <<>>

\* C6: each field resolves to the alias that comes first in the field's
\* alias list among those the file has, and is reported unresolved exactly
\* when the file has none of its aliases.
C6_FirstAliasWins ==
    HasRun =>
        \A f \in Range(Fields) :
            /\ ~Unresolved(f) => col[f] = KOR_KEYS[f][Least(Present(f))]
            /\ (KOR_KEYS[f][1] \in Range(missing)) <=> Unresolved(f)
            /\ Unresolved(f) => col[f] \notin Headers

C6_Witness ==
    /\ pc = "normalized"
    /\ Cardinality(Present("sales")) >= 2
    /\ T_maechulaek \notin Headers
    /\ col["sales"] = KOR_KEYS["sales"][2]
    /\ col["month"] = T_wol
    /\ col["ly"] = KOR_KEYS["ly"][3]

\* The table's periods are pairwise distinct.
DistinctPeriods(t) == \A a, b \in 1..Len(t) : a # b => t[a].dt # t[b].dt

\* C7: the export of a normalized table, put through the pipeline again,
\* resolves the four fields by their Korean headers, drops no row and
\* gives the same periods in the same order with the same sales, delta
\* and cumulative sales (stated for tables whose periods are distinct,
\* where the order of the rows is determined).
C7_RoundTrip ==
    (HasRun /\ prev.has /\ DistinctPeriods(prev.table)) =>
        /\ HasTable
        /\ col = [f \in Range(Fields) |-> KOR_KEYS[f][1]]
        /\ Len(out) = Len(prev.table)
        /\ \A i \in 1..Len(out) :
               /\ out[i].month = prev.table[i].month
               /\ out[i].sales = prev.table[i].sales
               /\ out[i].delta = prev.table[i].delta
               /\ out[i].cum = prev.table[i].cum

ExampleRows ==
    {<<P_2024_03, <<"3", "0">>, <<>>, <<>> >>,
     <<P_2024_01, <<"1", "0">>, <<>>, <<>> >>,
     <<P_2024_02, <<"2", "0">>, <<>>, <<>> >>}

\* C8: cumulative sales is the running sum of sales in the table's order,
\* which is the chronological order of the retained rows: the first row's
\* is its sales, each later row's adds its sales to the row before; a
\* dropped row adds nothing, and the rows 2024-03/30, 2024-01/10,
\* 2024-02/20 give 10, 30, 60 in whatever order the file has them.
C8_CumulativeSales ==
    HasTable =>
        /\ \A i \in 1..Len(out) :
               /\ out[i].cum = (IF i = 1 THEN 0 ELSE out[i - 1].cum) + out[i].sales
               /\ i > 1 => out[i - 1].dt <= out[i].dt
               /\ out[i].sales = coerced[labels[i]].sales.v
        /\ Len(out) =
               Cardinality({i \in 1..Len(coerced) : coerced[i].dt.ok /\ coerced[i].sales.ok})
        /\ (Len(file.rows) = 3 /\ Range(file.rows) = ExampleRows /\ ~prev.has) =>
               [i \in 1..Len(out) |-> out[i].cum] = <<10 * Unit, 30 * Unit, 60 * Unit>>

C8_Witness ==
    /\ pc = "normalized"
    /\ ~prev.has
    /\ Len(file.rows) = 3
    /\ file.rows[1][1] = P_2024_03 /\ file.rows[1][2] = <<"3", "0">>
    /\ file.rows[2][1] = P_Q1_2024
    /\ file.rows[3][1] = P_2024_01 /\ file.rows[3][2] = <<"1", "0">>
    /\ Len(out) = 2
    /\ out[2].cum = 40 * Unit

\* The coercion the claim describes: only ASCII digits, "-" and "." are kept.
AsciiKept(ch) == ch \in AsciiDigits \cup {"-", "."}

\* C9: to_num gives absent for a null cell, and otherwise the float read
\* from the cell's text with every character removed that is not an ASCII
\* digit, "-" or ".", absent when what is left is no float.
C9_ToNumKeepsAsciiDigits ==
    HasTable =>
        \A i \in 1..Len(coerced) :
            coerced[i].sales =
                (IF isna(CellOf(i, "sales")) THEN None
                 ELSE float(SelectSeq(str(CellOf(i, "sales")), AsciiKept)))

\* C10: on a table with rows, the row reported as the maximum (minimum) of
\* sales is the first row, in the table's order, whose sales is the
\* greatest (least) of the table.
C10_FirstExtremeWins ==
    pc \in {"rendered", "exported"} =>
        /\ kpi.max_idx \in 1..Len(out)
        /\ kpi.min_idx \in 1..Len(out)
        /\ \A j \in 1..Len(out) :
               /\ out[j].sales <= out[kpi.max_idx].sales
               /\ out[j].sales >= out[kpi.min_idx].sales
               /\ j < kpi.max_idx => out[j].sales < out[kpi.max_idx].sales
               /\ j < kpi.min_idx => out[j].sales > out[kpi.min_idx].sales
        /\ kpi.max_month = out[kpi.max_idx].month
        /\ kpi.max_sales = out[kpi.max_idx].sales
        /\ kpi.min_month = out[kpi.min_idx].month
        /\ kpi.min_sales = out[kpi.min_idx].sales

C10_Witness ==
    /\ pc = "rendered"
    /\ Len(out) = 3
    /\ out[1].sales = out[3].sales
    /\ out[2].sales < out[1].sales
    /\ out[1].dt < out[3].dt
    /\ kpi.max_idx = 1
    /\ kpi.min_idx = 2

====
